---- MODULE Spec2Model ----
(***************************************************************************)
(* Model of server.js: the startup sequence (testConnection, prepareSheet,  *)
(* app.listen), the POST /api/submit-form handler and the spreadsheet store *)
(* it appends rows to.                                                      *)
(*                                                                          *)
(* A JavaScript value is a record [kind, text]: kind is one of "undefined", *)
(* "string", "number", "object"; text is the value's characters, a sequence *)
(* of one-character strings.  "object" stands for a JSON object whose own   *)
(* "toString" property is not a function (such as {"toString": 1}), the     *)
(* JSON value that String coercion cannot convert.                          *)
(***************************************************************************)
EXTENDS Integers, Sequences, FiniteSets, TLC

VARIABLES pc, connected, prepareCalled, sheet, now, req

vars == <<pc, connected, prepareCalled, sheet, now, req>>

(* ------------------------------ bounds --------------------------------- *)

MaxRequests == 2

(* --------------------------- program constants ------------------------- *)

PhoneDigits == 10

TldMin == 2

TldMax == 6

MissingMessage == "Please fill all required fields: Name, Email, Phone"

PhoneMessage == "Phone number must be exactly 10 digits"

EmailMessage == "Please enter a valid email address"

FailureMessage == "Failed to submit form. Please try again later."

SuccessMessage == "Form submitted successfully"

(* ---------------------------- JavaScript values ------------------------ *)

Undefined == [kind |-> "undefined", text |-> <<>>]

Str(s) == [kind |-> "string", text |-> s]

Num(s) == [kind |-> "number", text |-> s]

BadObject == [kind |-> "object", text |-> <<>>]

\* [0-9], which is also the complement of \D
DigitChars == {"0", "1", "2", "3", "4", "5", "6", "7", "8", "9"}

\* [a-zA-Z]
LetterChars ==
    {"a", "b", "c", "d", "e", "f", "g", "h", "i", "j", "k", "l", "m", "n", "o", "p", "q",
     "r", "s", "t", "u", "v", "w", "x", "y", "z", "A", "B", "C", "D", "E", "F", "G", "H",
     "I", "J", "K", "L", "M", "N", "O", "P", "Q", "R", "S", "T", "U", "V", "W", "X", "Y", "Z"}

\* [a-zA-Z0-9._-]
LocalChars == LetterChars \cup DigitChars \cup {".", "_", "-"}

\* [a-zA-Z0-9.-]
DomainChars == LetterChars \cup DigitChars \cup {".", "-"}

\* !v is false exactly for truthy v: undefined, "" and 0 are falsy.
Truthy(v) ==
    CASE v.kind = "undefined" -> FALSE
      [] v.kind = "string"    -> v.text # <<>>
      [] v.kind = "number"    -> v.text # <<"0">>
      [] OTHER                -> TRUE

\* Whether v.toString() and String(v) return; on BadObject they throw a TypeError.
CanToString(v) == v.kind # "object"

\* The characters of v.toString(), for a value that has them.
ToText(v) ==
    IF v.kind = "undefined" THEN <<"u", "n", "d", "e", "f", "i", "n", "e", "d">> ELSE v.text

\* new Date().toISOString() at instant t
ISOString(t) == Str(<<"I", "S", "O", ToString(t)>>)

\* new Date().toLocaleString('en-IN', { timeZone: 'Asia/Kolkata' }) at instant t
LocaleString(t) == Str(<<"I", "N", ToString(t)>>)

HeaderRow ==
    << Str(<<"T", "i", "m", "e", "s", "t", "a", "m", "p">>),
       Str(<<"N", "a", "m", "e">>),
       Str(<<"E", "m", "a", "i", "l">>),
       Str(<<"P", "h", "o", "n", "e">>),
       Str(<<"C", "i", "t", "y">>),
       Str(<<"D", "e", "t", "a", "i", "l", "s">>),
       Str(<<"F", "o", "r", "m", " ", "T", "y", "p", "e">>),
       Str(<<"S", "o", "u", "r", "c", "e">>),
       Str(<<"S", "u", "b", "m", "i", "s", "s", "i", "o", "n", " ", "T", "i", "m", "e">>) >>

DefaultCity == Str(<<"N", "o", "t", " ", "s", "p", "e", "c", "i", "f", "i", "e", "d">>)

DefaultDetails == Str(<<>>)

DefaultFormType == Str(<<"g", "e", "n", "e", "r", "a", "l">>)

DefaultSource == Str(<<"w", "e", "b", "s", "i", "t", "e">>)

(* ------------------------- validation and the row ---------------------- *)

\* A destructuring default applies to an undefined property only.
Default(v, d) == IF v.kind = "undefined" THEN d ELSE v

\* v || d
OrElse(v, d) == IF Truthy(v) THEN v ELSE d

\* !name || !email || !phone
MissingRequired(body) ==
    ~Truthy(body.name) \/ ~Truthy(body.email) \/ ~Truthy(body.phone)

\* Variant of CleanPhone that removes the blanks only: s.replace(/\s/g, '')
CleanPhoneBlanksOnly(s) == SelectSeq(s, LAMBDA c : c # " ")

\* s.replace(/\D/g, '')
CleanPhone(s) == SelectSeq(s, LAMBDA c : c \in DigitChars)

\* /^[a-zA-Z0-9._-]+@[a-zA-Z0-9.-]+\.[a-zA-Z]{2,6}$/.test(s)
EmailRegexTest(s) ==
    \E i \in 1..Len(s), j \in 1..Len(s) :
        /\ s[i] = "@"
        /\ s[j] = "."
        /\ 1 < i
        /\ i + 1 < j
        /\ \A k \in 1..(i - 1) : s[k] \in LocalChars
        /\ \A k \in (i + 1)..(j - 1) : s[k] \in DomainChars
        /\ Len(s) - j >= TldMin
        /\ Len(s) - j <= TldMax
        /\ \A k \in (j + 1)..Len(s) : s[k] \in LetterChars

PhoneTypeError == [message |-> "phone.toString is not a function", code |-> "undefined"]

EmailTypeError == [message |-> "Cannot convert object to primitive value", code |-> "undefined"]

NoError == [message |-> "", code |-> ""]

\* Variant of Validate that tests the email format before the phone length.
ValidateEmailFirst(body) ==
    IF MissingRequired(body) THEN "missing"
    ELSE IF ~CanToString(body.email) THEN "emailThrows"
    ELSE IF ~EmailRegexTest(ToText(body.email)) THEN "email"
    ELSE IF ~CanToString(body.phone) THEN "phoneThrows"
    ELSE IF Len(CleanPhone(ToText(body.phone))) # PhoneDigits THEN "phone"
    ELSE "ok"

\* The synchronous part of the handler up to the row: which return or throw ends it.
Validate(body) ==
    IF MissingRequired(body) THEN "missing"
    ELSE IF ~CanToString(body.phone) THEN "phoneThrows"
    ELSE IF Len(CleanPhone(ToText(body.phone))) # PhoneDigits THEN "phone"
    ELSE IF ~CanToString(body.email) THEN "emailThrows"
    ELSE IF ~EmailRegexTest(ToText(body.email)) THEN "email"
    ELSE "ok"

\* Variant of BuildRow that writes formType || 'general' and source || 'website'.
BuildRowFalsyDefaults(body, t) ==
    << Default(body.timestamp, ISOString(t)),
       body.name,
       body.email,
       Str(CleanPhone(ToText(body.phone))),
       OrElse(body.city, DefaultCity),
       OrElse(body.details, DefaultDetails),
       OrElse(body.formType, DefaultFormType),
       OrElse(body.source, DefaultSource),
       LocaleString(t) >>

\* const values = [[ ... ]] built at instant t
BuildRow(body, t) ==
    << Default(body.timestamp, ISOString(t)),
       body.name,
       body.email,
       Str(CleanPhone(ToText(body.phone))),
       OrElse(body.city, DefaultCity),
       OrElse(body.details, DefaultDetails),
       Default(body.formType, DefaultFormType),
       Default(body.source, DefaultSource),
       LocaleString(t) >>

(* ------------------------------- responses ----------------------------- *)

NoResponse == [status |-> 0]

\* res.status(400).json({ error })
Rejection(reason) ==
    [status |-> 400,
     error  |-> CASE reason = "missing" -> MissingMessage
                  [] reason = "phone"   -> PhoneMessage
                  [] OTHER              -> EmailMessage]

\* Variant of ErrorResponse that hides the thrown error's message.
ErrorResponseGeneric(e) ==
    [status |-> 500, error |-> FailureMessage, details |-> "Internal error", code |-> e.code]

\* the catch block: res.status(500).json({ error, details, code })
ErrorResponse(e) ==
    [status |-> 500, error |-> FailureMessage, details |-> e.message, code |-> e.code]

\* Variant of SuccessResponse that echoes the phone as it was submitted.
SuccessResponseRawPhone(rq) ==
    [status  |-> 200,
     success |-> TRUE,
     message |-> SuccessMessage,
     data    |-> [name     |-> rq.body.name,
                  email    |-> rq.body.email,
                  phone    |-> rq.body.phone,
                  formType |-> Default(rq.body.formType, DefaultFormType)]]

\* res.status(200).json({ success, message, data })
SuccessResponse(rq) ==
    [status  |-> 200,
     success |-> TRUE,
     message |-> SuccessMessage,
     data    |-> [name     |-> rq.body.name,
                  email    |-> rq.body.email,
                  phone    |-> rq.cleanPhone,
                  formType |-> Default(rq.body.formType, DefaultFormType)]]

(* ------------------------------ request bodies ------------------------- *)

NoOptions ==
    [city |-> Undefined, details |-> Undefined, formType |-> Undefined,
     timestamp |-> Undefined, source |-> Undefined]

AllOptions ==
    [city      |-> Str(<<"P", "u", "n", "e">>),
     details   |-> Str(<<"2", "B", "H", "K">>),
     formType  |-> Str(<<"b", "r", "o", "c", "h", "u", "r", "e">>),
     timestamp |-> Str(<<"2", "0", "2", "4">>),
     source    |-> Str(<<"a", "d">>)]

\* optional fields supplied, but empty
EmptyOptions ==
    [city |-> Str(<<>>), details |-> Str(<<>>), formType |-> Str(<<>>),
     timestamp |-> Undefined, source |-> Str(<<>>)]

MkBody(name, email, phone, opt) ==
    [name |-> name, email |-> email, phone |-> phone, city |-> opt.city,
     details |-> opt.details, formType |-> opt.formType,
     timestamp |-> opt.timestamp, source |-> opt.source]

NoBody == MkBody(Undefined, Undefined, Undefined, NoOptions)

NameA == Str(<<"A">>)

Blank == Str(<<" ">>)

GoodEmail == Str(<<"a", "@", "b", ".", "c", "o">>)

LongEmail ==
    Str(<<"a", ".", "b", "-", "c", "@", "s", "u", "b", ".", "d", "o", "m", "a", "i", "n",
          ".", "c", "o">>)

NotAnEmail == Str(<<"n", "o", "t", "-", "a", "n", "-", "e", "m", "a", "i", "l">>)

ShortTldEmail == Str(<<"a", "@", "b", ".", "c">>)

LongTldEmail == Str(<<"a", "@", "b", ".", "a", "b", "c", "d", "e", "f", "g">>)

TenDigits == <<"9", "8", "7", "6", "5", "4", "3", "2", "1", "0">>

SpacedPhone == Str(<<"9", "8", "7", "6", "5", " ", "4", "3", "2", "1", "0">>)

PrefixedPhone ==
    Str(<<"+", "9", "1", " ", "9", "8", "7", "6", "5", " ", "4", "3", "2", "1", "0">>)

DashedNinePhone == Str(<<"9", "8", "7", "6", "5", "-", "4", "3", "2", "1">>)

FiveDigitPhone == Str(<<"1", "2", "3", "4", "5">>)

\* The request bodies the clients send.
Bodies ==
    { MkBody(NameA, GoodEmail, Str(TenDigits), NoOptions),
      MkBody(NameA, LongEmail, SpacedPhone, AllOptions),
      MkBody(NameA, GoodEmail, Num(TenDigits), EmptyOptions),
      MkBody(Blank, GoodEmail, Str(TenDigits), NoOptions),
      MkBody(Undefined, GoodEmail, Str(TenDigits), NoOptions),
      MkBody(Str(<<>>), GoodEmail, Str(TenDigits), NoOptions),
      MkBody(NameA, Undefined, Str(TenDigits), NoOptions),
      MkBody(NameA, GoodEmail, Undefined, NoOptions),
      MkBody(NameA, GoodEmail, Num(<<"0">>), NoOptions),
      MkBody(Undefined, NotAnEmail, FiveDigitPhone, NoOptions),
      MkBody(NameA, GoodEmail, FiveDigitPhone, NoOptions),
      MkBody(NameA, NotAnEmail, FiveDigitPhone, AllOptions),
      MkBody(NameA, GoodEmail, PrefixedPhone, NoOptions),
      MkBody(NameA, GoodEmail, DashedNinePhone, NoOptions),
      MkBody(NameA, GoodEmail, Blank, NoOptions),
      MkBody(NameA, NotAnEmail, Str(TenDigits), NoOptions),
      MkBody(NameA, Blank, Str(TenDigits), NoOptions),
      MkBody(NameA, ShortTldEmail, Str(TenDigits), NoOptions),
      MkBody(NameA, LongTldEmail, Str(TenDigits), NoOptions),
      MkBody(NameA, GoodEmail, BadObject, NoOptions),
      MkBody(NameA, NotAnEmail, BadObject, NoOptions),
      MkBody(NameA, BadObject, Str(TenDigits), NoOptions) }

\* The errors a call of the spreadsheet service fails with.
StoreErrors ==
    { [message |-> "The caller does not have permission", code |-> "403"],
      [message |-> "socket hang up", code |-> "ECONNRESET"] }

(* ------------------------------ the handler ---------------------------- *)

Requests == 1..MaxRequests

Idle ==
    [stage |-> "idle", body |-> NoBody, cleanPhone |-> Undefined, values |-> <<>>,
     at |-> 0, afterFailure |-> FALSE, attempts |-> 0, appendResult |-> "none", storeError |-> NoError,
     response |-> NoResponse]

Responded(body, t, resp) ==
    [Idle EXCEPT !.stage = "done", !.body = body, !.at = t, !.response = resp]

\* The handler from its entry to its first return, throw or await, at instant t.
OnRequest(body, t) ==
    LET v == Validate(body) IN
    CASE v = "ok" ->
            [Idle EXCEPT !.stage = "appending", !.body = body, !.at = t,
                         !.cleanPhone = Str(CleanPhone(ToText(body.phone))),
                         !.values = BuildRow(body, t), !.attempts = 1]
      [] v = "phoneThrows" -> Responded(body, t, ErrorResponse(PhoneTypeError))
      [] v = "emailThrows" -> Responded(body, t, ErrorResponse(EmailTypeError))
      [] OTHER -> Responded(body, t, Rejection(v))

\* The await returns: the handler sends the success response.
OnAppendResolved(rq) == [rq EXCEPT !.stage = "done", !.response = SuccessResponse(rq)]

\* The await throws e: the catch block sends the error response.
OnAppendRejected(rq) == [rq EXCEPT !.stage = "done", !.response = ErrorResponse(rq.storeError)]

(* ------------------------------- startup ------------------------------- *)

\* Variant of AfterProbe that starts the server whatever the probe returned.
AfterProbeDegraded(c) == "prepareSheet"

\* if (connected) { prepareSheet ... listen } else { process.exit(1) }
AfterProbe(c) == IF c = "true" THEN "prepareSheet" ELSE "exited"

\* values.get of A1:I1 returns no values when row 1 is empty
HeaderRangeEmpty(sh) == Len(sh) = 0

\* if (!response.data.values) update A1:I1 else leave it
AfterHeaderRead(sh) == IF HeaderRangeEmpty(sh) THEN "writeHeader" ELSE "listen"

\* values.update of A1:I1 with the header row
WriteHeader(sh) == IF Len(sh) = 0 THEN <<HeaderRow>> ELSE [sh EXCEPT ![1] = HeaderRow]

(* ------------------------------- the system ---------------------------- *)

Init ==
    /\ pc = "testConnection"
    /\ connected = "pending"
    /\ prepareCalled = FALSE
    /\ sheet \in {<<>>, <<HeaderRow>>}
    /\ now = 0
    /\ req = [r \in Requests |-> Idle]

TestConnectionOk ==
    /\ pc = "testConnection"
    /\ connected' = "true"
    /\ pc' = "startServer"
    /\ UNCHANGED <<prepareCalled, sheet, now, req>>

TestConnectionFail ==
    /\ pc = "testConnection"
    /\ connected' = "false"
    /\ pc' = "startServer"
    /\ UNCHANGED <<prepareCalled, sheet, now, req>>

StartServerBranch ==
    /\ pc = "startServer"
    /\ pc' = AfterProbe(connected)
    /\ prepareCalled' = (pc' = "prepareSheet")
    /\ UNCHANGED <<connected, sheet, now, req>>

PrepareReadOk ==
    /\ pc = "prepareSheet"
    /\ pc' = AfterHeaderRead(sheet)
    /\ UNCHANGED <<connected, prepareCalled, sheet, now, req>>

PrepareReadFail ==
    /\ pc = "prepareSheet"
    /\ pc' = "listen"
    /\ UNCHANGED <<connected, prepareCalled, sheet, now, req>>

PrepareWriteOk ==
    /\ pc = "writeHeader"
    /\ sheet' = WriteHeader(sheet)
    /\ pc' = "listen"
    /\ UNCHANGED <<connected, prepareCalled, now, req>>

PrepareWriteFail ==
    /\ pc = "writeHeader"
    /\ pc' = "listen"
    /\ UNCHANGED <<connected, prepareCalled, sheet, now, req>>

Listen ==
    /\ pc = "listen"
    /\ pc' = "listening"
    /\ UNCHANGED <<connected, prepareCalled, sheet, now, req>>

\* History: some earlier request has already been answered after a failed append.
FailureAnswered ==
    \E q \in Requests : req[q].stage = "done" /\ req[q].appendResult = "failed"

SubmitForm ==
    \E r \in Requests, body \in Bodies :
        /\ pc = "listening"
        /\ req[r].stage = "idle"
        /\ \A q \in 1..(r - 1) : req[q].stage # "idle"
        /\ now' = now + 1
        /\ req' = [req EXCEPT ![r] =
                      [OnRequest(body, now') EXCEPT !.afterFailure = FailureAnswered]]
        /\ UNCHANGED <<pc, connected, prepareCalled, sheet>>

AppendSucceeds ==
    \E r \in Requests :
        /\ req[r].stage = "appending"
        /\ sheet' = Append(sheet, req[r].values)
        /\ req' = [req EXCEPT ![r].stage = "resolved", ![r].appendResult = "ok"]
        /\ UNCHANGED <<pc, connected, prepareCalled, now>>

AppendFails ==
    \E r \in Requests, e \in StoreErrors :
        /\ req[r].stage = "appending"
        /\ req' = [req EXCEPT ![r].stage = "rejected", ![r].appendResult = "failed",
                              ![r].storeError = e]
        /\ UNCHANGED <<pc, connected, prepareCalled, sheet, now>>

RespondSuccess ==
    \E r \in Requests :
        /\ req[r].stage = "resolved"
        /\ req' = [req EXCEPT ![r] = OnAppendResolved(req[r])]
        /\ UNCHANGED <<pc, connected, prepareCalled, sheet, now>>

RespondFailure ==
    \E r \in Requests :
        /\ req[r].stage = "rejected"
        /\ req' = [req EXCEPT ![r] = OnAppendRejected(req[r])]
        /\ UNCHANGED <<pc, connected, prepareCalled, sheet, now>>

Next ==
    \/ TestConnectionOk
    \/ TestConnectionFail
    \/ StartServerBranch
    \/ PrepareReadOk
    \/ PrepareReadFail
    \/ PrepareWriteOk
    \/ PrepareWriteFail
    \/ Listen
    \/ SubmitForm
    \/ AppendSucceeds
    \/ AppendFails
    \/ RespondSuccess
    \/ RespondFailure

Spec == Init /\ [][Next]_vars

(* =============================== properties ============================ *)

Arrived(r) == req[r].stage # "idle"

Answered(r) == req[r].stage = "done"

Status(r) == req[r].response.status

SheetRows == {sheet[i] : i \in 1..Len(sheet)}

RECURSIVE StripNonDigits(_)
StripNonDigits(s) ==
    IF s = <<>> THEN <<>>
    ELSE IF Head(s) \in {"0", "1", "2", "3", "4", "5", "6", "7", "8", "9"}
         THEN <<Head(s)>> \o StripNonDigits(Tail(s))
         ELSE StripNonDigits(Tail(s))

TenDigitString(v) ==
    /\ v.kind = "string"
    /\ Len(v.text) = 10
    /\ \A k \in 1..Len(v.text) : v.text[k] \in {"0", "1", "2", "3", "4", "5", "6", "7", "8", "9"}

Absent(v) == v.kind = "undefined" \/ (v.kind = "string" /\ v.text = <<>>) \/ v = Num(<<"0">>)

WhitespaceOnly(v) ==
    /\ v.kind = "string"
    /\ v.text # <<>>
    /\ \A k \in 1..Len(v.text) : v.text[k] = " "

MissingStep(b) == Absent(b.name) \/ Absent(b.email) \/ Absent(b.phone)

PhoneStep(b) == b.phone.kind \in {"string", "number"} /\ Len(StripNonDigits(b.phone.text)) # 10

EmailStep(b) == b.email.kind \in {"string", "number"} /\ ~EmailRegexTest(b.email.text)

(* C1: a request whose input fails validation (a required field missing, a  *)
(* digit-stripped phone of a length other than 10, or an email that does    *)
(* not match the pattern) never has an append issued, is answered 400 and   *)
(* leaves the rows of the store as they were.                               *)
C1_InvalidInputGets400AndNoAppend ==
    \A r \in Requests :
        (Arrived(r) /\ (MissingStep(req[r].body) \/ PhoneStep(req[r].body) \/ EmailStep(req[r].body)))
            => /\ req[r].attempts = 0
               /\ req[r].values \notin SheetRows
               /\ Answered(r)
               /\ Status(r) = 400

(* C2: every row the handler hands to the store, and every row of the store *)
(* that is not the header, has in its 4th column a string of exactly 10     *)
(* decimal digits, the input phone as text with every non-digit removed.    *)
C2_StoredPhoneIsTenStrippedDigits ==
    /\ \A r \in Requests :
          req[r].attempts > 0
              => /\ TenDigitString(req[r].values[4])
                 /\ req[r].values[4].text = StripNonDigits(ToText(req[r].body.phone))
    /\ \A i \in 1..Len(sheet) :
          sheet[i] # HeaderRow
              => /\ TenDigitString(sheet[i][4])
                 /\ \E r \in Requests :
                        req[r].appendResult = "ok" /\ sheet[i] = req[r].values

C2_Witness ==
    \E r \in Requests :
        /\ req[r].appendResult = "ok"
        /\ req[r].body.phone = SpacedPhone
        /\ req[r].values \in SheetRows
        /\ req[r].values[4] = Str(TenDigits)

(* C3: a 400 answer carries the message of the earliest failing step in the *)
(* order presence, phone length, email format, and only an input with a     *)
(* failing step is answered 400.                                            *)
C3_RejectionIsEarliestFailingStep ==
    \A r \in Requests :
        (Answered(r) /\ Status(r) = 400)
            => req[r].response.error =
                  (CASE MissingStep(req[r].body) -> MissingMessage
                     [] ~MissingStep(req[r].body) /\ PhoneStep(req[r].body) -> PhoneMessage
                     [] ~MissingStep(req[r].body) /\ ~PhoneStep(req[r].body)
                            /\ EmailStep(req[r].body) -> EmailMessage
                     [] OTHER -> "no step fails")

C3_Witness ==
    \E r \in Requests :
        /\ Answered(r)
        /\ req[r].body = MkBody(NameA, NotAnEmail, FiveDigitPhone, AllOptions)
        /\ Status(r) = 400
        /\ req[r].response.error = PhoneMessage

(* C4: a submission whose name, email or phone is only whitespace is        *)
(* answered 400 with the missing-required-fields message, and no row is     *)
(* appended for it.                                                         *)
C4_WhitespaceOnlyIsMissing ==
    \A r \in Requests :
        (Arrived(r) /\ (WhitespaceOnly(req[r].body.name) \/ WhitespaceOnly(req[r].body.email)
                           \/ WhitespaceOnly(req[r].body.phone)))
            => /\ req[r].attempts = 0
               /\ Answered(r)
               /\ Status(r) = 400
               /\ req[r].response.error = MissingMessage

(* C5: when the append of a validated submission fails, the answer is 500   *)
(* with the store's error message unchanged in details, no request has more *)
(* than one append attempt, the server stays up, and a submission that      *)
(* arrives after such a failure and whose append succeeds is answered 200.  *)
C5_AppendFailureSurfacedNoRetry ==
    /\ \A r \in Requests :
          /\ req[r].attempts <= 1
          /\ req[r].appendResult = "failed" => req[r].storeError \in StoreErrors
          /\ (Answered(r) /\ req[r].appendResult = "failed")
                => /\ Status(r) = 500
                   /\ req[r].response.details = req[r].storeError.message
                   /\ req[r].attempts = 1
          /\ (Answered(r) /\ req[r].afterFailure /\ req[r].appendResult = "ok")
                => Status(r) = 200
    /\ (\E r \in Requests : req[r].appendResult = "failed") => pc = "listening"

C5_Witness ==
    \E r, q \in Requests :
        /\ Answered(r) /\ req[r].appendResult = "failed" /\ Status(r) = 500
        /\ req[r].response.details = "socket hang up"
        /\ Answered(q) /\ req[q].afterFailure /\ req[q].appendResult = "ok"
        /\ Status(q) = 200

(* C6: a 200 answer is sent only after the append of the request's row      *)
(* succeeded; its data holds exactly name, email, phone and formType, and   *)
(* data.phone is the 10-digit normalized phone stored in the row.           *)
C6_SuccessAfterAppendEchoesNormalizedPhone ==
    \A r \in Requests :
        (Answered(r) /\ Status(r) = 200)
            => /\ req[r].appendResult = "ok"
               /\ req[r].values \in SheetRows
               /\ DOMAIN req[r].response.data = {"name", "email", "phone", "formType"}
               /\ TenDigitString(req[r].response.data.phone)
               /\ req[r].response.data.phone = req[r].values[4]
               /\ req[r].response.data.phone.text = StripNonDigits(ToText(req[r].body.phone))
               /\ req[r].response.data.name = req[r].body.name
               /\ req[r].response.data.email = req[r].body.email
               /\ req[r].response.data.formType = req[r].values[7]

C6_Witness ==
    \E r \in Requests :
        /\ Answered(r) /\ Status(r) = 200
        /\ req[r].body.phone = SpacedPhone
        /\ req[r].response.data.phone = Str(TenDigits)
        /\ req[r].response.data.phone # req[r].body.phone

(* C7: if the connectivity probe fails, prepareSheet is never called, the   *)
(* server never listens and no request is handled; the server listens, and  *)
(* requests are handled, only after a successful probe.                     *)
C7_FailedProbeNeverListens ==
    /\ connected = "false"
          => /\ pc \in {"startServer", "exited"}
             /\ ~prepareCalled
             /\ \A r \in Requests : ~Arrived(r)
    /\ (pc \in {"prepareSheet", "writeHeader", "listen", "listening"} \/ prepareCalled)
          => connected = "true"
    /\ (\E r \in Requests : Arrived(r)) => connected = "true"

C7_Witness == connected = "false" /\ pc = "exited"

(* C8: whenever the server is listening, row 1 of the store is the header   *)
(* row.                                                                     *)
C8_ListeningImpliesHeaderRow ==
    pc = "listening" => (Len(sheet) >= 1 /\ sheet[1] = HeaderRow)

(* C9: the row built for an accepted submission has 9 columns in the order  *)
(* timestamp, name, email, normalized phone, city, details, formType,       *)
(* source, local clock string; an optional field that was not supplied      *)
(* takes its default, and supplied name, email, formType, source and        *)
(* timestamp are stored unchanged.                                          *)
C9_RowColumnsAndDefaults ==
    \A r \in Requests :
        req[r].attempts > 0 =>
            LET b == req[r].body
                v == req[r].values
                supplied(x) == x.kind # "undefined"
            IN  /\ Len(v) = 9
                /\ v[1] = (IF supplied(b.timestamp) THEN b.timestamp ELSE ISOString(req[r].at))
                /\ v[2] = b.name
                /\ v[3] = b.email
                /\ v[4] = Str(StripNonDigits(ToText(b.phone)))
                /\ ~supplied(b.city) =>
                       v[5] = Str(<<"N", "o", "t", " ", "s", "p", "e", "c", "i", "f", "i", "e", "d">>)
                /\ ~supplied(b.details) => v[6] = Str(<<>>)
                /\ v[7] = (IF supplied(b.formType) THEN b.formType
                           ELSE Str(<<"g", "e", "n", "e", "r", "a", "l">>))
                /\ v[8] = (IF supplied(b.source) THEN b.source
                           ELSE Str(<<"w", "e", "b", "s", "i", "t", "e">>))
                /\ v[9] = LocaleString(req[r].at)
                /\ req[r].appendResult = "ok" => v \in SheetRows

C9_Witness ==
    \E r, q \in Requests :
        /\ req[r].appendResult = "ok"
        /\ req[r].body = MkBody(NameA, GoodEmail, Str(TenDigits), NoOptions)
        /\ req[r].values \in SheetRows
        /\ req[r].values[5] = DefaultCity
        /\ req[r].values[7] = DefaultFormType
        /\ req[q].appendResult = "ok"
        /\ req[q].body = MkBody(NameA, GoodEmail, Num(TenDigits), EmptyOptions)
        /\ req[q].values[7] = Str(<<>>)

(* C10: every answered request is in exactly one of the outcomes rejected   *)
(* (400, no append attempted), stored (200, one append that succeeded) or   *)
(* store-failed (500, one append that was attempted and failed); no request *)
(* is answered 500 without a failed append.                                 *)
C10_ThreeOutcomes ==
    \A r \in Requests :
        Answered(r) =>
            \/ Status(r) = 400 /\ req[r].attempts = 0
            \/ Status(r) = 200 /\ req[r].attempts = 1 /\ req[r].appendResult = "ok"
            \/ Status(r) = 500 /\ req[r].attempts = 1 /\ req[r].appendResult = "failed"

====
